---- MODULE Spec2Model ----
(***************************************************************************)
(* Model of src/app.js: an Express service that keeps, per user, an array  *)
(* of FCM token records in MongoDB (UserToken) and fans notifications out  *)
(* to them through firebase-admin.                                         *)
(*                                                                         *)
(* Three handlers are modelled: POST /register-token, POST                 *)
(* /send-notification and POST /send-bulk-notification.  Every await of a  *)
(* handler is a point where other handlers, gateway replies and store      *)
(* replies interleave; the code between two awaits is one atomic step.     *)
(***************************************************************************)
EXTENDS Integers, Sequences, FiniteSets

\* ------------------------------------------------------------ bounds
\* Registrations accepted over a run (each one draws a fresh subdocument _id).
MaxRegs == 3

\* Identities the requests are drawn from.
Users == {"u1", "u2"}
Tokens == {"t1", "t2"}
Devices == {"d1", "d2"}
\* The dispatch request slots: a slot takes the next request once everything
\* its previous request started (sends, prunes, the response) has ended.
CallIds == {"c1"}
\* userIds arrays of a bulk request (a duplicate and the empty array included).
UserIdLists == {<<>>, <<"u1">>, <<"u2">>, <<"u1", "u1">>, <<"u1", "u2">>}
\* The (userId, fcmToken) pairs registrations are drawn from: two tokens of
\* one user, and one token held by two users.
Registrations == {<<"u1", "t1">>, <<"u1", "t2">>, <<"u2", "t1">>}

\* The order in which find() returns the documents of the collection.
UserOrder == <<"u1", "u2">>

\* ------------------------------------------------------------ constants
\* FCM per-batch limit of the bulk handler; 500 in the source, scaled down
\* so that a fan-out the model can hold spans more than one batch.
batchSize == 2

\* What admin.messaging().send(message) yields: a message id ("ok") or an
\* error carrying one of these codes.
Codes == {"ok",
          "messaging/invalid-registration-token",
          "messaging/registration-token-not-registered",
          "messaging/internal-error"}

\* What the runtime does with a rejected promise that has no handler: log a
\* warning and go on, or raise it as an uncaught exception, which ends the
\* process (node's --unhandled-rejections modes; the source sets none and
\* installs no 'unhandledRejection' listener).
UnhandledRejections == {"warn", "throw"}

VARIABLES
    UserToken,  \* the collection: userId -> [exists, fcmTokens]
    nextId,     \* the next subdocument _id mongoose hands out
    now,        \* the server clock (Date.now())
    reg,        \* the status of the last /register-token response (0: none yet)
    call,       \* the dispatch requests: CallIds -> call record
    running     \* the node process is alive

vars == <<UserToken, nextId, now, reg, call, running>>

\* ------------------------------------------------------------ helpers
Range(s) == {s[i] : i \in DOMAIN s}

\* The concatenation of a sequence of sequences (what flatMap does with the
\* arrays its callback returns).
RECURSIVE Flatten(_)
Flatten(ss) == IF ss = <<>> THEN <<>> ELSE Head(ss) \o Flatten(Tail(ss))

Min(a, b) == IF a < b THEN a ELSE b

\* ------------------------------------------------------------ the store
\* Mutant of AddToSet: the array is overwritten ($set in place of $addToSet).
AddToSet_Overwrite(fcmTokens, rec) == <<rec>>

\* $addToSet: fcmTokens gains the element unless an equal element is there;
\* equality is on the whole subdocument (token, device, lastUsed, _id).
AddToSet(fcmTokens, rec) ==
    IF \E i \in DOMAIN fcmTokens : fcmTokens[i] = rec
    THEN fcmTokens
    ELSE Append(fcmTokens, rec)

\* $pull {fcmTokens: {token}}: every element carrying the token goes.
Pull(fcmTokens, token) == SelectSeq(fcmTokens, LAMBDA r : r.token # token)

\* findOneAndUpdate({userId}, {$addToSet}, {upsert: true}).
FindOneAndUpdate(coll, userId, rec) ==
    [coll EXCEPT ![userId] =
        [exists |-> TRUE, fcmTokens |-> AddToSet(@.fcmTokens, rec)]]

\* updateOne({userId}, {$pull}).
UpdateOne(coll, userId, token) ==
    [coll EXCEPT ![userId].fcmTokens = Pull(@, token)]

\* Mutant of UpdateMany: updateOne({}, {$pull}) in its place, which touches
\* only the first document of the collection.
UpdateMany_FirstMatch(coll, token) ==
    LET docs == SelectSeq(UserOrder, LAMBDA u : coll[u].exists)
    IN  IF docs = <<>> THEN coll ELSE UpdateOne(coll, docs[1], token)

\* updateMany({}, {$pull}).
UpdateMany(coll, token) ==
    [u \in Users |-> [coll[u] EXCEPT !.fcmTokens = Pull(@, token)]]

\* Mutant of Find: one lookup per listed id, so a repeated id repeats its
\* document.
Find_PerListedId(coll, userIds) == SelectSeq(userIds, LAMBDA u : coll[u].exists)

\* find({userId: {$in: userIds}}): the matching documents, each once.
Find(coll, userIds) ==
    SelectSeq(UserOrder, LAMBDA u : u \in Range(userIds) /\ coll[u].exists)

\* ------------------------------------------------------------ the handlers
NoResp == [status |-> 0, sent |-> 0, failed |-> 0]
Resp(status, sent, failed) == [status |-> status, sent |-> sent, failed |-> failed]

\* A dispatch request: its userIds, the envelopes built from the snapshot
\* (messages: the token of each; owner: the document each was built from,
\* kept for the properties only), what became of each send and of the prune
\* it triggered, the loop offset i of the bulk handler (next), the response;
\* lookups counts the find/findOne calls issued and storeUp is whether the
\* store answered the lookup (both kept for the properties only).
IdleCall == [kind |-> "idle", userIds |-> <<>>, lookups |-> 0, storeUp |-> TRUE,
             messages |-> <<>>,
             owner |-> <<>>, send |-> <<>>, prune |-> <<>>, next |-> 0,
             resp |-> NoResp]

\* Mutants of IsInvalidToken: every caught error prunes; only the first of
\* the two codes prunes.
IsInvalidToken_AnyError(code) == TRUE
IsInvalidToken_FirstCodeOnly(code) == code = "messaging/invalid-registration-token"

\* error.code === "messaging/invalid-registration-token" ||
\* error.code === "messaging/registration-token-not-registered"
IsInvalidToken(code) ==
    \/ code = "messaging/invalid-registration-token"
    \/ code = "messaging/registration-token-not-registered"

\* Mutant of LookupFailed: the lookup's error is swallowed and the handler
\* goes on with what it reads.
LookupFailed_Swallowed(up) == FALSE

\* await UserToken.findOne(...) / find(...) throws when the store does not
\* answer, which lands in the handler's outer catch.
LookupFailed(up) == ~up

\* Mutant of NoTokens: only the missing document is tested.
NoTokens_MissingOnly(doc) == ~doc.exists

\* if (!userTokens || userTokens.fcmTokens.length === 0)
NoTokens(doc) == ~doc.exists \/ Len(doc.fcmTokens) = 0

\* userTokens.fcmTokens.map(tokenInfo => ({..., token: tokenInfo.token}))
Envelopes(fcmTokens) == [i \in DOMAIN fcmTokens |-> fcmTokens[i].token]

Owners(fcmTokens, userId) == [i \in DOMAIN fcmTokens |-> userId]

\* Mutant of Task: the /send-notification callback does not await its
\* updateOne either.
Task_PruneNotAwaited(cr, i) ==
    IF cr.send[i] \in {"unsent", "inflight"} THEN "pending"
    ELSE IF cr.send[i] = "ok" THEN "id"
    ELSE "null"

\* What one element of the Promise.all array has become.  "pending": not yet
\* settled; "id": resolved with a message id; "null": resolved with null;
\* "rejected": the async callback threw (its awaited updateOne failed).
\* The bulk handler's callback does not await its updateMany: it yields null
\* as soon as the send has failed.
Task(cr, i) ==
    LET s == cr.send[i]
        p == cr.prune[i]
    IN  IF s \in {"unsent", "inflight"} THEN "pending"
        ELSE IF s = "ok" THEN "id"
        ELSE IF cr.kind = "single" /\ p = "pending" THEN "pending"
        ELSE IF cr.kind = "single" /\ p = "failed" THEN "rejected"
        ELSE "null"

Tasks(cr) == [i \in DOMAIN cr.messages |-> Task(cr, i)]

\* Mutant of SuccessfulSends: the filter is dropped.
SuccessfulSends_Unfiltered(responses) == Len(responses)

\* responses.filter(response => response !== null).length
SuccessfulSends(responses) ==
    Cardinality({i \in DOMAIN responses : responses[i] # "null"})

\* res.status(200).json({success: true, message: `Successfully sent ${n}
\* notifications`, failed: messages.length - n})
Success(cr) ==
    LET n == SuccessfulSends(Tasks(cr))
    IN  Resp(200, n, Len(cr.messages) - n)

\* The catch clause of a send: what becomes of the prune of envelope i.
Caught(code) == IF code # "ok" /\ IsInvalidToken(code) THEN "pending" ELSE "none"

\* /send-notification after one of its callbacks has moved: Promise.all
\* rejects on the first rejection (outer catch, 500) and resolves when every
\* element has resolved (200); the response is written once.
SingleRespond(cr) ==
    IF cr.resp.status # 0 THEN cr
    ELSE IF \E i \in DOMAIN cr.messages : Task(cr, i) = "rejected"
         THEN [cr EXCEPT !.resp = Resp(500, 0, 0)]
    ELSE IF \A i \in DOMAIN cr.messages : Task(cr, i) # "pending"
         THEN [cr EXCEPT !.resp = Success(cr)]
    ELSE cr

\* Mutants of Slice: the end is one short (slice(i, i + batchSize - 1)); the
\* end is left out (slice(i)).
Slice_ShortByOne(cr, i) == (i + 1) .. Min(i + batchSize - 1, Len(cr.messages))
Slice_NoEnd(cr, i) == (i + 1) .. Len(cr.messages)

\* messages.slice(i, i + batchSize), as indexes into messages (1-based).
Slice(cr, i) == (i + 1) .. Min(i + batchSize, Len(cr.messages))

\* Mutant of BatchDone: the loop goes on when any send of the batch has
\* settled (a race in place of Promise.all).
BatchDone_AnySettled(cr) == \E j \in Slice(cr, cr.next) : Task(cr, j) # "pending"

\* await Promise.all(batch...) has resolved: every send of the batch settled.
BatchDone(cr) == \A j \in Slice(cr, cr.next) : Task(cr, j) # "pending"

\* Mutant of SendBatch: the batch is cut from the start (slice(0, i +
\* batchSize)), so earlier envelopes are sent again.
SendBatch_FromStart(cr, i) ==
    [cr EXCEPT !.next = i,
               !.send = [j \in DOMAIN cr.messages |->
                            IF j <= Min(i + batchSize, Len(cr.messages))
                            THEN "inflight" ELSE cr.send[j]]]

\* The batch starting at offset i is sent: batch.map(message => send(message)).
SendBatch(cr, i) ==
    [cr EXCEPT !.next = i,
               !.send = [j \in DOMAIN cr.messages |->
                            IF j \in Slice(cr, i) THEN "inflight" ELSE cr.send[j]]]

\* The for loop of /send-bulk-notification, from its test i < messages.length.
Loop(cr, i) ==
    IF i < Len(cr.messages) THEN SendBatch(cr, i)
    ELSE [cr EXCEPT !.next = i, !.resp = Success(cr)]

\* /send-bulk-notification after one send of the current batch has settled.
BulkContinue(cr) ==
    IF cr.resp.status = 0 /\ BatchDone(cr) THEN Loop(cr, cr.next + batchSize) ELSE cr

Init ==
    /\ UserToken = [u \in Users |-> [exists |-> FALSE, fcmTokens |-> <<>>]]
    /\ nextId = 1
    /\ now = 0
    /\ reg = 0
    /\ call = [c \in CallIds |-> IdleCall]
    /\ running = TRUE

\* POST /register-token.  `up` is whether the store answers the update.  The
\* clock has moved on since the previous registration (lastUsed: new Date()),
\* and mongoose casts the pushed subdocument, which gives it a fresh _id.
RegisterToken(userId, fcmToken, deviceInfo, up) ==
    /\ running
    /\ nextId <= MaxRegs
    /\ LET rec == [token |-> fcmToken, device |-> deviceInfo,
                   lastUsed |-> now + 1, id |-> nextId]
       IN  IF up
           THEN /\ UserToken' = FindOneAndUpdate(UserToken, userId, rec)
                /\ nextId' = nextId + 1
                /\ now' = now + 1
                /\ reg' = 200
           ELSE /\ reg' = 500
                /\ UNCHANGED <<UserToken, nextId, now>>
    /\ UNCHANGED <<call, running>>

\* Nothing of the dispatch request is outstanding any more.
Ended(cr) ==
    /\ cr.resp.status # 0
    /\ \A i \in DOMAIN cr.messages :
          cr.send[i] # "inflight" /\ cr.prune[i] # "pending"

Free(cr) == cr.kind = "idle" \/ Ended(cr)

\* POST /send-notification up to its Promise.all: findOne, the 404 test, the
\* envelopes, and every send issued.  `up` is whether the store answers.
SendNotification(c, userId, up) ==
    /\ running
    /\ Free(call[c])
    /\ LET doc == UserToken[userId]
           msgs == Envelopes(doc.fcmTokens)
           cr == [IdleCall EXCEPT !.kind = "single", !.userIds = <<userId>>,
                                  !.lookups = 1, !.storeUp = up]
       IN  call' = [call EXCEPT ![c] =
                IF LookupFailed(up) THEN [cr EXCEPT !.resp = Resp(500, 0, 0)]
                ELSE IF NoTokens(doc) THEN [cr EXCEPT !.resp = Resp(404, 0, 0)]
                ELSE SingleRespond(
                        [cr EXCEPT !.messages = msgs,
                                   !.owner = Owners(doc.fcmTokens, userId),
                                   !.send = [i \in DOMAIN msgs |-> "inflight"],
                                   !.prune = [i \in DOMAIN msgs |-> "none"]])]
    /\ UNCHANGED <<UserToken, nextId, now, reg, running>>

\* The gateway answers send(messages[i]) of a /send-notification call.
SendSettles(c, i, code) ==
    /\ running
    /\ call[c].kind = "single"
    /\ i \in DOMAIN call[c].messages
    /\ call[c].send[i] = "inflight"
    /\ call' = [call EXCEPT ![c] =
                    SingleRespond([@ EXCEPT !.send[i] = code,
                                            !.prune[i] = Caught(code)])]
    /\ UNCHANGED <<UserToken, nextId, now, reg, running>>

\* The store answers the awaited updateOne of envelope i.
PruneSettles(c, i, up) ==
    /\ running
    /\ call[c].kind = "single"
    /\ i \in DOMAIN call[c].messages
    /\ call[c].prune[i] = "pending"
    /\ IF up
       THEN /\ UserToken' = UpdateOne(UserToken, call[c].userIds[1], call[c].messages[i])
            /\ call' = [call EXCEPT ![c] = SingleRespond([@ EXCEPT !.prune[i] = "done"])]
       ELSE /\ UserToken' = UserToken
            /\ call' = [call EXCEPT ![c] = SingleRespond([@ EXCEPT !.prune[i] = "failed"])]
    /\ UNCHANGED <<nextId, now, reg, running>>

\* POST /send-bulk-notification up to the first await of its loop: find, the
\* 404 test, the flattened envelopes, and the first batch issued.
SendBulkNotification(c, userIds, up) ==
    /\ running
    /\ Free(call[c])
    /\ LET userTokens == Find(UserToken, userIds)
           msgs == Flatten([k \in DOMAIN userTokens |->
                              Envelopes(UserToken[userTokens[k]].fcmTokens)])
           cr == [IdleCall EXCEPT !.kind = "bulk", !.userIds = userIds,
                                  !.lookups = 1, !.storeUp = up]
       IN  call' = [call EXCEPT ![c] =
                IF LookupFailed(up) THEN [cr EXCEPT !.resp = Resp(500, 0, 0)]
                ELSE IF Len(userTokens) = 0 THEN [cr EXCEPT !.resp = Resp(404, 0, 0)]
                ELSE Loop([cr EXCEPT !.messages = msgs,
                                     !.owner = Flatten([k \in DOMAIN userTokens |->
                                         Owners(UserToken[userTokens[k]].fcmTokens,
                                                userTokens[k])]),
                                     !.send = [i \in DOMAIN msgs |-> "unsent"],
                                     !.prune = [i \in DOMAIN msgs |-> "none"]], 0)]
    /\ UNCHANGED <<UserToken, nextId, now, reg, running>>

\* The gateway answers send(messages[i]) of a /send-bulk-notification call;
\* the .catch fires updateMany(...).exec() without awaiting it.
BulkSendSettles(c, i, code) ==
    /\ running
    /\ call[c].kind = "bulk"
    /\ i \in DOMAIN call[c].messages
    /\ call[c].send[i] = "inflight"
    /\ call' = [call EXCEPT ![c] =
                    BulkContinue([@ EXCEPT !.send[i] = code,
                                           !.prune[i] = Caught(code)])]
    /\ UNCHANGED <<UserToken, nextId, now, reg, running>>

\* The store answers the background updateMany of envelope i; nothing of the
\* handler waits for it.  Its failure rejects the promise exec() returned, to
\* which no handler is attached: what the runtime does with the unhandled
\* rejection (`mode`) is either a warning or the end of the process, in
\* which every handler stops where it is.
BulkPruneSettles(c, i, up, mode) ==
    /\ running
    /\ call[c].kind = "bulk"
    /\ i \in DOMAIN call[c].messages
    /\ call[c].prune[i] = "pending"
    /\ IF up
       THEN /\ UserToken' = UpdateMany(UserToken, call[c].messages[i])
            /\ call' = [call EXCEPT ![c].prune[i] = "done"]
            /\ running' = running
       ELSE /\ UserToken' = UserToken
            /\ call' = [call EXCEPT ![c].prune[i] = "failed"]
            /\ running' = (mode = "warn")
    /\ UNCHANGED <<nextId, now, reg>>

MsgIndexes == 1 .. MaxRegs

Requests(devices) ==
    \/ \E r \in Registrations, d \in devices, up \in BOOLEAN :
          RegisterToken(r[1], r[2], d, up)
    \/ \E c \in CallIds, u \in Users, up \in BOOLEAN : SendNotification(c, u, up)
    \/ \E c \in CallIds, i \in MsgIndexes, code \in Codes : SendSettles(c, i, code)
    \/ \E c \in CallIds, i \in MsgIndexes, up \in BOOLEAN : PruneSettles(c, i, up)
    \/ \E c \in CallIds, ids \in UserIdLists, up \in BOOLEAN :
          SendBulkNotification(c, ids, up)
    \/ \E c \in CallIds, i \in MsgIndexes, code \in Codes : BulkSendSettles(c, i, code)
    \/ \E c \in CallIds, i \in MsgIndexes, up \in BOOLEAN, mode \in UnhandledRejections :
          BulkPruneSettles(c, i, up, mode)

\* The device label is stored and never read by a handler: the dispatch
\* claims are checked with one label, the registration claims with two.
Next == Requests({"d1"})
NextDevices == Requests(Devices)

Spec == Init /\ [][Next]_vars
SpecDevices == Init /\ [][NextDevices]_vars

\* Every gateway send and every store call that is outstanding eventually
\* yields its result, success or failure.
Outcomes ==
    \A c \in CallIds, i \in MsgIndexes :
        /\ WF_vars(\E code \in Codes : SendSettles(c, i, code))
        /\ WF_vars(\E up \in BOOLEAN : PruneSettles(c, i, up))
        /\ WF_vars(\E code \in Codes : BulkSendSettles(c, i, code))
        /\ WF_vars(\E up \in BOOLEAN, mode \in UnhandledRejections :
                      BulkPruneSettles(c, i, up, mode))

SpecLive == Init /\ [][Next]_vars /\ Outcomes

\* ------------------------------------------------------------ properties
\* The two error codes the gateway uses for a permanently invalid token
\* (the PermanentInvalidToken outcome); every other error is transient.
PermanentCodes == {"messaging/invalid-registration-token",
                   "messaging/registration-token-not-registered"}
TransientCodes == (Codes \ {"ok"}) \ PermanentCodes

Recs(coll, u) == Range(coll[u].fcmTokens)
WithToken(fcmTokens, t) == {i \in DOMAIN fcmTokens : fcmTokens[i].token = t}
Msgs(c) == DOMAIN call[c].messages

\* C1: in every reachable state each user's token set holds at most one
\* record per token value.
C1_TokensUnique ==
    \A u \in Users : \A t \in Tokens :
        Cardinality(WithToken(UserToken[u].fcmTokens, t)) <= 1

\* C2: a registration of (userId, token) whose token the user already holds
\* with another device leaves exactly one record for that token, and that
\* record carries the device and the lastUsed of this registration.
C2_IdempotentRegistration ==
    [][\A u \in Users : \A r \in Recs(UserToken', u) :
          ( /\ nextId' = nextId + 1
            /\ r.id = nextId
            /\ \E o \in Recs(UserToken, u) : o.token = r.token /\ o.device # r.device )
          => LET same == WithToken(UserToken'[u].fcmTokens, r.token)
             IN  /\ Cardinality(same) = 1
                 /\ \A i \in same : /\ UserToken'[u].fcmTokens[i].device = r.device
                                    /\ UserToken'[u].fcmTokens[i].lastUsed = now'
      ]_vars

\* C3: no false pruning -- in both dispatch handlers a prune is issued for
\* an envelope only when its own send returned one of the two
\* permanent-invalid-token codes; a transient failure never prunes.
C3_NoFalsePruning ==
    \A c \in CallIds : \A i \in Msgs(c) :
        call[c].prune[i] # "none" => call[c].send[i] \in PermanentCodes

\* A finished call in which one send failed transiently (and was left in the
\* store) next to one whose token was pruned.
C3_Witness ==
    \E c \in CallIds : \E i, j \in Msgs(c) :
        /\ call[c].send[i] \in TransientCodes /\ call[c].prune[i] = "none"
        /\ call[c].send[j] \in PermanentCodes /\ call[c].prune[j] = "done"
        /\ call[c].resp.status = 200

PruneCalls(c, t) == {i \in Msgs(c) : call[c].messages[i] = t /\ call[c].prune[i] # "none"}
InvalidSends(c, t) == {i \in Msgs(c) : call[c].messages[i] = t
                                       /\ call[c].send[i] \in PermanentCodes}

\* No user of the call's snapshot held two records of one token.
NoDuplicateRecord(c) ==
    \A i, j \in Msgs(c) :
        (call[c].messages[i] = call[c].messages[j]
            /\ call[c].owner[i] = call[c].owner[j]) => i = j

\* C4 as claimed: a token whose send returned PermanentInvalidToken is pruned
\* exactly once in the call, however many envelopes carry it (stated for the
\* calls whose snapshot holds no duplicate record, where several envelopes
\* carry a token only because several resolved users hold it).
C4_ExactlyOnePrune ==
    \A c \in CallIds : \A t \in Tokens :
        (NoDuplicateRecord(c) /\ InvalidSends(c, t) # {})
            => Cardinality(PruneCalls(c, t)) = 1

\* C4 as amended: every envelope whose send returned PermanentInvalidToken
\* issues its own prune call, so a token is pruned once per such envelope.
C4_OnePrunePerInvalidSend ==
    \A c \in CallIds : \A t \in Tokens :
        Cardinality(PruneCalls(c, t)) = Cardinality(InvalidSends(c, t))

\* One token carried by two envelopes of a call, both found invalid, both
\* prunes completed.
C4_Witness ==
    \E c \in CallIds : \E i, j \in Msgs(c) :
        /\ i # j /\ call[c].messages[i] = call[c].messages[j]
        /\ NoDuplicateRecord(c)
        /\ call[c].send[i] \in PermanentCodes /\ call[c].prune[i] = "done"
        /\ call[c].send[j] \in PermanentCodes /\ call[c].prune[j] = "done"

Delivered(c) == {i \in Msgs(c) : call[c].send[i] = "ok"}
Failed(c) == {i \in Msgs(c) : call[c].send[i] \in TransientCodes \cup PermanentCodes}

\* C5: exact aggregation -- a call that answers 200 reports as sent the
\* number of delivered sends, as failed the number of transient or permanent
\* failures, and the two add up to the number of envelopes attempted.
C5_ExactAggregation ==
    \A c \in CallIds :
        call[c].resp.status = 200 =>
            /\ call[c].resp.sent = Cardinality(Delivered(c))
            /\ call[c].resp.failed = Cardinality(Failed(c))
            /\ call[c].resp.sent + call[c].resp.failed = Len(call[c].messages)

\* A bulk call over more than one batch that answered with a delivered, a
\* transient and a permanent outcome.
C5_Witness ==
    \E c \in CallIds :
        /\ call[c].kind = "bulk" /\ call[c].resp.status = 200
        /\ Len(call[c].messages) > batchSize
        /\ call[c].resp.sent >= 1
        /\ \E i, j \in Msgs(c) : /\ call[c].send[i] \in TransientCodes
                                 /\ call[c].send[j] \in PermanentCodes

\* The step in which slot c takes a new request (its lookup included).
Starts(c) == Free(call[c]) /\ call'[c] # call[c]

\* C6: empty state -- a /send-notification whose lookup succeeds for a user
\* with no document, or with a document holding zero tokens, answers 404,
\* builds no envelope (so sends nothing) and leaves the store unchanged.
C6_EmptyState ==
    [][\A c \in CallIds :
          ( /\ Starts(c)
            /\ call'[c].kind = "single"
            /\ call'[c].resp.status # 500
            /\ LET doc == UserToken[call'[c].userIds[1]]
               IN  ~doc.exists \/ doc.fcmTokens = <<>> )
          => /\ call'[c].resp.status = 404
             /\ call'[c].messages = <<>>
             /\ call'[c].send = <<>>
             /\ call'[c].prune = <<>>
             /\ UserToken' = UserToken
      ]_vars

\* A /send-notification answered 404 for a user whose document is there but
\* holds no token any more.
C6_Witness ==
    \E c \in CallIds :
        /\ call[c].kind = "single" /\ call[c].resp.status = 404
        /\ UserToken[call[c].userIds[1]].exists
        /\ UserToken[call[c].userIds[1]].fcmTokens = <<>>
        /\ nextId > 1

EnvelopesOf(cr, u, t) == {i \in DOMAIN cr.messages : cr.owner[i] = u /\ cr.messages[i] = t}

\* C7: duplicate user dedup -- the envelopes a /send-bulk-notification builds
\* hold each token record of each listed user once, however often the user
\* is listed, and nothing for a user that is not listed.
C7_DuplicateUserDedup ==
    [][\A c \in CallIds :
          (Starts(c) /\ call'[c].kind = "bulk" /\ call'[c].resp.status # 500)
          => \A u \in Users : \A t \in Tokens :
                Cardinality(EnvelopesOf(call'[c], u, t)) =
                    IF u \in Range(call'[c].userIds)
                    THEN Cardinality(WithToken(UserToken[u].fcmTokens, t))
                    ELSE 0
      ]_vars

\* A finished bulk call whose userIds listed u1 twice, with two records of u1
\* attempted once each.
C7_Witness ==
    \E c \in CallIds :
        /\ call[c].kind = "bulk" /\ call[c].userIds = <<"u1", "u1">>
        /\ Len(call[c].messages) = 2
        /\ call[c].resp = Resp(200, 2, 0)

\* C8: a failed prune is never escalated -- a call one of whose prunes failed
\* at the store does not answer with a server error.
C8_PruneFailureNotEscalated ==
    \A c \in CallIds :
        (\E i \in Msgs(c) : call[c].prune[i] = "failed") => call[c].resp.status # 500

\* The prune of token t completes at the store in this step, reaching the
\* document of user u.
PruneCompletes(u, t) ==
    \E c \in CallIds : \E i \in Msgs(c) :
        /\ call[c].messages[i] = t
        /\ call[c].prune[i] = "pending" /\ call'[c].prune[i] = "done"
        /\ call[c].kind = "single" => call[c].userIds[1] = u

\* C9: registration and prune are each one atomic store update, so none
\* loses the other's: a record leaves a user's set only in the step that
\* completes a prune of its own token, a completed prune leaves none of its
\* token behind, and a record enters only as the one a registration adds.
C9_NoLostUpdate ==
    [][\A u \in Users :
          /\ UserToken'[u] # UserToken[u] =>
                /\ \A r \in Recs(UserToken, u) :
                      r \notin Recs(UserToken', u) => PruneCompletes(u, r.token)
                /\ \A r \in Recs(UserToken', u) :
                      r \notin Recs(UserToken, u) =>
                          (r.id = nextId /\ nextId' = nextId + 1)
          /\ call' # call =>
                \A t \in Tokens :
                    PruneCompletes(u, t) => WithToken(UserToken'[u].fcmTokens, t) = {}
          /\ (nextId' # nextId /\ reg' = 200) =>
                \E v \in Users : \E r \in Recs(UserToken', v) : r.id = nextId
      ]_vars

\* u1's token t1 was pruned by a /send-notification whose snapshot held no
\* t2; t2 was registered for u1 while the call ran, and is there without t1.
C9_Witness ==
    \E c \in CallIds : \E i \in Msgs(c) :
        /\ call[c].kind = "single" /\ call[c].userIds = <<"u1">>
        /\ call[c].messages[i] = "t1" /\ call[c].prune[i] = "done"
        /\ "t2" \notin Range(call[c].messages)
        /\ WithToken(UserToken["u1"].fcmTokens, "t2") # {}
        /\ WithToken(UserToken["u1"].fcmTokens, "t1") = {}

\* The batch (0, 1, ...) envelope i belongs to.
BatchOf(i) == (i - 1) \div batchSize
Settled(c, i) == call[c].send[i] \in Codes

\* C10 as claimed: a send of a later batch has started only when every send
\* of every earlier batch has its outcome and every prune an earlier batch
\* triggered has completed (succeeded or failed) at the store.
C10_BatchesAwaitPrunes ==
    \A c \in CallIds : \A i, j \in Msgs(c) :
        (call[c].kind = "bulk" /\ BatchOf(i) < BatchOf(j) /\ call[c].send[j] # "unsent")
            => (Settled(c, i) /\ call[c].prune[i] # "pending")

\* C10 as amended: a send of a later batch has started only when every send
\* of every earlier batch has its outcome and has issued the prune it
\* triggers; the prune itself may still be pending.
C10_BatchesSequential ==
    \A c \in CallIds : \A i, j \in Msgs(c) :
        (call[c].kind = "bulk" /\ BatchOf(i) < BatchOf(j) /\ call[c].send[j] # "unsent")
            => /\ Settled(c, i)
               /\ call[c].send[i] \in PermanentCodes => call[c].prune[i] # "none"

\* The second batch is in flight after a first batch of two settled sends,
\* one of which triggered a prune.
C10_Witness ==
    \E c \in CallIds : \E i, j \in Msgs(c) :
        /\ call[c].kind = "bulk"
        /\ BatchOf(i) = 0 /\ call[c].send[i] \in PermanentCodes
        /\ BatchOf(j) = 1 /\ call[c].send[j] = "inflight"
        /\ \A k \in Msgs(c) : BatchOf(k) = 0 => Settled(c, k)

\* ceil(n / size).
CeilDiv(n, size) == (n + size - 1) \div size
Started(c) == {i \in Msgs(c) : call[c].send[i] # "unsent"}
InFlight(c) == {i \in Msgs(c) : call[c].send[i] = "inflight"}
\* A bulk call that got past its lookup and its 404 test.
Looping(c) == call[c].kind = "bulk" /\ call[c].resp.status \in {0, 200}

\* C11: batch partition -- the loop offset advances in steps of batchSize;
\* while the loop runs, the group in flight is the next batchSize envelopes
\* in order (fewer, but at least one, at the end), everything before it has
\* been sent and settled and nothing after it has been sent; when the loop
\* has ended, every envelope has been sent and ceil(N / batchSize) groups
\* were formed (none when N = 0).
C11_BatchPartition ==
    \A c \in CallIds :
        Looping(c) =>
            LET n == Len(call[c].messages)
                i == call[c].next
            IN  /\ i % batchSize = 0
                /\ call[c].resp.status = 0 =>
                      /\ i < n
                      /\ Started(c) = 1 .. Min(i + batchSize, n)
                      /\ InFlight(c) \subseteq (i + 1) .. Min(i + batchSize, n)
                /\ call[c].resp.status = 200 =>
                      /\ Started(c) = 1 .. n
                      /\ InFlight(c) = {}
                      /\ i \div batchSize = CeilDiv(n, batchSize)

\* A bulk call over more envelopes than one batch holds has ended: a full
\* group and a last group were formed.
C11_Witness ==
    \E c \in CallIds :
        /\ call[c].kind = "bulk" /\ call[c].resp.status = 200
        /\ Len(call[c].messages) > batchSize
        /\ call[c].next \div batchSize = 2

\* C12: sibling isolation -- only a failed lookup ends a dispatch call in a
\* server error: a call that built envelopes never answers 500.
C12_OnlyLookupAborts ==
    \A c \in CallIds :
        call[c].resp.status = 500 => call[c].messages = <<>>

\* C13: a bulk call with an empty userIds array answers 404 without having
\* issued the lookup.
C13_EmptyListNoLookup ==
    \A c \in CallIds :
        (call[c].kind = "bulk" /\ call[c].userIds = <<>>)
            => (call[c].lookups = 0 /\ call[c].resp.status = 404)

\* C14: a bulk call never answers success with nothing attempted.
C14_NoEmptySuccess ==
    \A c \in CallIds :
        (call[c].kind = "bulk" /\ call[c].resp.status = 200)
            => Len(call[c].messages) > 0

\* C15 as claimed: when a dispatch call has answered with its outcome, no
\* prune it triggered is still pending.
C15_PrunesDoneAtResponse ==
    \A c \in CallIds :
        call[c].resp.status = 200 =>
            \A i \in Msgs(c) : call[c].prune[i] # "pending"

\* C15 as amended: when /send-notification has answered with its outcome,
\* every prune it triggered has completed at the store.
C15_SinglePrunesDoneAtResponse ==
    \A c \in CallIds :
        (call[c].kind = "single" /\ call[c].resp.status = 200) =>
            \A i \in Msgs(c) :
                /\ call[c].prune[i] \in {"none", "done"}
                /\ call[c].send[i] \in PermanentCodes => call[c].prune[i] = "done"

\* A /send-notification answered 200 after a prune it awaited.
C15_Witness ==
    \E c \in CallIds : \E i \in Msgs(c) :
        /\ call[c].kind = "single" /\ call[c].resp.status = 200
        /\ call[c].prune[i] = "done"

\* C16: at every moment of a bulk call at most batchSize sends are in
\* flight.
C16_InFlightBounded ==
    \A c \in CallIds :
        call[c].kind = "bulk" => Cardinality(InFlight(c)) <= batchSize

\* A full batch in flight while a later envelope waits for its turn.
C16_Witness ==
    \E c \in CallIds :
        /\ call[c].kind = "bulk"
        /\ Cardinality(InFlight(c)) = batchSize
        /\ \E i \in Msgs(c) : call[c].send[i] = "unsent"

\* The bulk prune of envelope i completes at the store in this step.
BulkPruneCompletes(c, i) ==
    /\ call[c].kind = "bulk"
    /\ call[c].prune[i] = "pending" /\ call'[c].prune[i] = "done"

\* C17: when the prune a bulk call triggered for token T completes, no user
\* of the store holds T, listed in userIds or not; running the same prune
\* again changes nothing; and T comes back to a user only by a registration.
C17_RemovedEverywhere ==
    [][/\ \A c \in CallIds : \A i \in Msgs(c) :
            BulkPruneCompletes(c, i) =>
                /\ \A u \in Users :
                      WithToken(UserToken'[u].fcmTokens, call[c].messages[i]) = {}
                /\ UpdateMany(UserToken', call[c].messages[i]) = UserToken'
       /\ \A u \in Users : \A t \in Tokens :
            ( /\ WithToken(UserToken[u].fcmTokens, t) = {}
              /\ WithToken(UserToken'[u].fcmTokens, t) # {} ) => nextId' = nextId + 1
      ]_vars

\* After the two registrations (u1, t1) and (u2, t1), a bulk call over u1
\* alone has pruned t1, and u2, which was not listed, holds no t1 either.
C17_Witness ==
    \E c \in CallIds : \E i \in Msgs(c) :
        /\ call[c].kind = "bulk" /\ call[c].userIds = <<"u1">>
        /\ call[c].messages[i] = "t1" /\ call[c].prune[i] = "done"
        /\ nextId = 3
        /\ UserToken["u2"].exists
        /\ \A u \in Users : WithToken(UserToken[u].fcmTokens, "t1") = {}

\* The number of token records the lookup of a starting call reads.
SnapshotSize(cr) ==
    IF cr.kind = "single" THEN Len(UserToken[cr.userIds[1]].fcmTokens)
    ELSE Len(Flatten([k \in DOMAIN UserOrder |->
                IF UserOrder[k] \in Range(cr.userIds)
                THEN UserToken[UserOrder[k]].fcmTokens ELSE <<>>]))

\* C18: a call builds one envelope per token record of its snapshot; after
\* that its envelopes never change (a token registered later is not added),
\* a send that has its outcome is never issued again, and when the call
\* answers 200 every envelope has been sent.
C18_SentOncePerRecord ==
    [][\A c \in CallIds :
          /\ (Starts(c) /\ call'[c].storeUp) =>
                Len(call'[c].messages) = SnapshotSize(call'[c])
          /\ ~Starts(c) =>
                /\ call'[c].messages = call[c].messages
                /\ \A i \in Msgs(c) :
                      /\ Settled(c, i) => call'[c].send[i] = call[c].send[i]
                      /\ call[c].send[i] = "inflight" => call'[c].send[i] # "unsent"
          /\ call'[c].resp.status = 200 =>
                /\ \A i \in DOMAIN call'[c].messages : call'[c].send[i] \in Codes
                /\ call'[c].resp.sent + call'[c].resp.failed = Len(call'[c].messages)
      ]_vars

\* A /send-notification has answered, one of its sends having failed
\* transiently, while its user holds a record more than the call attempted:
\* one registered after the snapshot.
C18_Witness ==
    \E c \in CallIds :
        /\ call[c].kind = "single" /\ call[c].resp.status = 200
        /\ call[c].resp.failed >= 1
        /\ \A i \in Msgs(c) : call[c].prune[i] = "none"
        /\ Len(UserToken[call[c].userIds[1]].fcmTokens) > Len(call[c].messages)

\* C19: a dispatch call whose lookup the store does not answer ends with
\* 500 after that one lookup, builds no envelope (so sends and prunes
\* nothing) and changes no token set; a registration the store does not
\* answer ends with 500 and changes no token set.
C19_StoreFailureIsFatal ==
    [][/\ \A c \in CallIds :
            (Starts(c) /\ ~call'[c].storeUp) =>
                /\ call'[c].resp = Resp(500, 0, 0)
                /\ call'[c].lookups = 1
                /\ call'[c].messages = <<>>
                /\ call'[c].send = <<>> /\ call'[c].prune = <<>>
                /\ UserToken' = UserToken
       /\ (reg' = 500 /\ reg # 500) => UserToken' = UserToken
      ]_vars

\* The lookup of a call for a user that holds tokens failed, and so did the
\* last registration.
C19_Witness ==
    \E c \in CallIds :
        /\ call[c].kind = "single" /\ ~call[c].storeUp
        /\ call[c].resp.status = 500
        /\ UserToken[call[c].userIds[1]].fcmTokens # <<>>
        /\ reg = 500

\* A dispatch request has been received and not answered yet.
Unanswered(c) == call[c].kind # "idle" /\ call[c].resp.status = 0

\* A request receives its response only once, and a bulk request receives
\* it only when every send of every batch has its outcome.
C20_AnsweredOnce ==
    [][\A c \in CallIds :
          /\ (call[c].resp.status # 0 /\ ~Starts(c)) => call'[c].resp = call[c].resp
          /\ (call'[c].kind = "bulk" /\ call'[c].resp.status = 200) =>
                \A i \in DOMAIN call'[c].messages : call'[c].send[i] \in Codes
      ]_vars

\* Every dispatch request that was received is eventually answered.
C20_EveryCallAnswers ==
    \A c \in CallIds : Unanswered(c) ~> (call[c].resp.status # 0)

\* C20: provided every outstanding send and store call yields a result,
\* every dispatch request is eventually answered, exactly once, and a bulk
\* request only after the sends of its last batch have their outcomes.
C20_Liveness == C20_EveryCallAnswers /\ C20_AnsweredOnce
====
